---- MODULE Spec2Model ----
(***************************************************************************)
(* tdd-ai: the session document (.tdd-ai.json) and the commands that load  *)
(* it, mutate it in memory and save it back.  One variable, session, is    *)
(* the persisted document; every command is one atomic load / mutate /     *)
(* save step.  A command that returns an error before session.Save leaves  *)
(* the document as it was (a stuttering step).                             *)
(*                                                                         *)
(* Representation:                                                         *)
(*   - CurrentSpecID, a pointer to int, is a set: {} for nil, {id}.        *)
(*   - A text (a reflection answer) is a sequence of one-character         *)
(*     strings, so that strings.Fields can be computed on it.              *)
(*   - Event.Timestamp (time.Now) is left out: no command reads it.        *)
(*   - History holds the most recent event only: the log is only ever      *)
(*     appended to and no command reads it, so the older entries cannot    *)
(*     influence any step.                                                 *)
(*   - `refactor reflect` is given the pending questions in the order      *)
(*     `refactor status` lists them (lowest number first); answered        *)
(*     questions and invalid numbers are given in any state.               *)
(***************************************************************************)
EXTENDS Integers, Sequences, FiniteSets, TLC

VARIABLES session

vars == <<session>>

----------------------------------------------------------------------------
(* Bounds of the model *)

MaxSpecs == 2

----------------------------------------------------------------------------
(* internal/types/types.go *)

PhaseRed == "red"

PhaseGreen == "green"

PhaseRefactor == "refactor"

PhaseDone == "done"

ValidPhases == <<PhaseRed, PhaseGreen, PhaseRefactor, PhaseDone>>

IsValid(p) == \E i \in 1..Len(ValidPhases) : ValidPhases[i] = p

SpecStatusActive == "active"

SpecStatusCompleted == "completed"

ModeGreenfield == "greenfield"

ModeRetrofit == "retrofit"

GetMode(s) == IF s.Mode = "" THEN ModeGreenfield ELSE s.Mode

NewSession ==
    [ Phase          |-> PhaseRed,
      Mode           |-> "",
      TestCmd        |-> "",
      LastTestResult |-> "",
      Specs          |-> << >>,
      NextID         |-> 1,
      CurrentSpecID  |-> {},
      Iteration      |-> 0,
      Reflections    |-> << >>,
      History        |-> << >> ]

\* A mutator that can fail returns the session and an error ("" for nil).
Ok(s) == [s |-> s, err |-> ""]

Fail(s, e) == [s |-> s, err |-> e]

\* The id AddSpec returns: id := s.NextID, read before the increment.
AddSpecID(s) == s.NextID

\* Mutant: the counter is not incremented.
AddSpec_NoIncrement(s, description) ==
    [s EXCEPT !.Specs = Append(@, [ID          |-> s.NextID,
                                   Description |-> description,
                                   Status      |-> SpecStatusActive])]

AddSpec(s, description) ==
    [s EXCEPT !.Specs  = Append(@, [ID          |-> s.NextID,
                                    Description |-> description,
                                    Status      |-> SpecStatusActive]),
              !.NextID = @ + 1]

\* Index of the first spec with the given id, 0 when there is none.
FindSpec(s, id) ==
    IF \E i \in 1..Len(s.Specs) : s.Specs[i].ID = id
    THEN CHOOSE i \in 1..Len(s.Specs) :
            /\ s.Specs[i].ID = id
            /\ \A j \in 1..(i - 1) : s.Specs[j].ID # id
    ELSE 0

\* Mutant: completing a spec also clears the current-spec pointer.
CompleteSpec_ClearsCurrent(s, id) ==
    LET i == FindSpec(s, id)
    IN  IF i = 0 THEN Fail(s, "spec not found")
        ELSE IF s.Specs[i].Status = SpecStatusCompleted
             THEN Fail(s, "spec is already completed")
             ELSE Ok([s EXCEPT !.Specs[i].Status = SpecStatusCompleted,
                               !.CurrentSpecID  = {}])

CompleteSpec(s, id) ==
    LET i == FindSpec(s, id)
    IN  IF i = 0 THEN Fail(s, "spec not found")
        ELSE IF s.Specs[i].Status = SpecStatusCompleted
             THEN Fail(s, "spec is already completed")
             ELSE Ok([s EXCEPT !.Specs[i].Status = SpecStatusCompleted])

\* The indices of the ACTIVE specs.
ActiveIdx(s) == {i \in 1..Len(s.Specs) : s.Specs[i].Status = SpecStatusActive}

\* Mutant: the list is rebuilt from the ACTIVE specs, dropping the others.
CompleteAllSpecs_DropsCompleted(s) ==
    LET active == SelectSeq(s.Specs, LAMBDA sp : sp.Status = SpecStatusActive)
    IN  [s     |-> [s EXCEPT !.Specs = [i \in 1..Len(active) |->
                         [active[i] EXCEPT !.Status = SpecStatusCompleted]]],
         count |-> Cardinality(ActiveIdx(s))]

CompleteAllSpecs(s) ==
    [s     |-> [s EXCEPT !.Specs = [i \in 1..Len(s.Specs) |->
                     [s.Specs[i] EXCEPT !.Status = SpecStatusCompleted]]],
     count |-> Cardinality(ActiveIdx(s))]

ActiveSpecs(s) == SelectSeq(s.Specs, LAMBDA sp : sp.Status = SpecStatusActive)

\* Mutant: the status of the spec is not looked at.
SetCurrentSpec_AnyStatus(s, id) ==
    LET i == FindSpec(s, id)
    IN  IF i = 0 THEN Fail(s, "spec not found")
        ELSE Ok([s EXCEPT !.CurrentSpecID = {id}])

SetCurrentSpec(s, id) ==
    LET i == FindSpec(s, id)
    IN  IF i = 0 THEN Fail(s, "spec not found")
        ELSE IF s.Specs[i].Status # SpecStatusActive
             THEN Fail(s, "spec is not active")
             ELSE Ok([s EXCEPT !.CurrentSpecID = {id}])

CompleteCurrentSpec(s) ==
    IF s.CurrentSpecID = {} THEN Fail(s, "no current spec selected")
    ELSE LET r == CompleteSpec(s, CHOOSE id \in s.CurrentSpecID : TRUE)
         IN  IF r.err # "" THEN r
             ELSE Ok([r.s EXCEPT !.CurrentSpecID = {}])

RemainingSpecs(s) ==
    SelectSeq(s.Specs, LAMBDA sp : /\ sp.Status = SpecStatusActive
                                   /\ sp.ID \notin s.CurrentSpecID)

\* Mutant: every loaded question counts as pending.
PendingReflections_All(s) == s.Reflections

PendingReflections(s) == SelectSeq(s.Reflections, LAMBDA r : r.Answer = << >>)

\* Mutant: one answered question is enough.
AllReflectionsAnswered_Some(s) ==
    \/ Len(s.Reflections) = 0
    \/ \E i \in 1..Len(s.Reflections) : s.Reflections[i].Answer # << >>

AllReflectionsAnswered(s) ==
    \A i \in 1..Len(s.Reflections) : s.Reflections[i].Answer # << >>

\* Index of the first reflection question with the given id, 0 when none.
FindReflection(s, id) ==
    IF \E i \in 1..Len(s.Reflections) : s.Reflections[i].ID = id
    THEN CHOOSE i \in 1..Len(s.Reflections) :
            /\ s.Reflections[i].ID = id
            /\ \A j \in 1..(i - 1) : s.Reflections[j].ID # id
    ELSE 0

\* Mutant: the answer is stored in the first question, whatever the id.
AnswerReflection_FirstQuestion(s, id, answer) ==
    LET i == FindReflection(s, id)
    IN  IF i = 0 THEN Fail(s, "reflection question not found")
        ELSE Ok([s EXCEPT !.Reflections[1].Answer = answer])

AnswerReflection(s, id, answer) ==
    LET i == FindReflection(s, id)
    IN  IF i = 0 THEN Fail(s, "reflection question not found")
        ELSE Ok([s EXCEPT !.Reflections[i].Answer = answer])

\* An event with only its action set; the options of AddEvent fill the rest.
Event(action) ==
    [Action |-> action, From |-> "", To |-> "", Result |-> "",
     SpecCount |-> 0, SpecID |-> 0]

\* append(s.History, e), of which the model keeps the last entry.
AddEvent(s, e) == [s EXCEPT !.History = <<e>>]

----------------------------------------------------------------------------
(* internal/phase: the transition tables and the expected test result *)

\* A Go map as a function on its key set.
transitions ==
    [p \in {PhaseRed, PhaseGreen, PhaseRefactor} |->
        IF p = PhaseRed THEN PhaseGreen
        ELSE IF p = PhaseGreen THEN PhaseRefactor
        ELSE PhaseDone]

\* Mutant: the retrofit table is a copy of the greenfield one.
retrofitTransitions_WithGreen ==
    [p \in {PhaseRed, PhaseGreen, PhaseRefactor} |->
        IF p = PhaseRed THEN PhaseGreen
        ELSE IF p = PhaseGreen THEN PhaseRefactor
        ELSE PhaseDone]

retrofitTransitions ==
    [p \in {PhaseRed, PhaseRefactor} |->
        IF p = PhaseRed THEN PhaseRefactor ELSE PhaseDone]

\* Mutant: the table wraps around, DONE has the successor RED.
NextWithMode_Wraps(current, mode) ==
    LET t == IF mode = ModeRetrofit THEN retrofitTransitions ELSE transitions
    IN  IF current \notin DOMAIN t
        THEN IF current = PhaseDone
             THEN [phase |-> PhaseRed, err |-> ""]
             ELSE [phase |-> "", err |-> "unknown phase"]
        ELSE [phase |-> t[current], err |-> ""]

\* Mutant: the mode is not looked at, the greenfield table is always used.
NextWithMode_IgnoresMode(current, mode) ==
    IF current \notin DOMAIN transitions
    THEN IF current = PhaseDone
         THEN [phase |-> "", err |-> "TDD cycle is complete"]
         ELSE [phase |-> "", err |-> "unknown phase"]
    ELSE [phase |-> transitions[current], err |-> ""]

\* (next, error): err = "" stands for a nil error.
NextWithMode(current, mode) ==
    LET t == IF mode = ModeRetrofit THEN retrofitTransitions ELSE transitions
    IN  IF current \notin DOMAIN t
        THEN IF current = PhaseDone
             THEN [phase |-> "", err |-> "TDD cycle is complete"]
             ELSE [phase |-> "", err |-> "unknown phase"]
        ELSE [phase |-> t[current], err |-> ""]

\* Mutant: RED expects a failure in RETROFIT too.
ExpectedTestResult_IgnoresMode(p, mode) ==
    IF p = PhaseRed THEN "fail" ELSE "pass"

\* Mutant: the expected result no longer depends on the phase and the mode.
ExpectedTestResult_AlwaysPass(p, mode) == "pass"

ExpectedTestResult(p, mode) ==
    IF p = PhaseRed /\ mode # ModeRetrofit THEN "fail" ELSE "pass"

\* Mutant: the remaining specs are not looked at.
NextInLoop_NeverLoops(current, mode, hasRemainingSpecs) ==
    NextWithMode(current, mode)

NextInLoop(current, mode, hasRemainingSpecs) ==
    IF current = PhaseRefactor /\ hasRemainingSpecs
    THEN [phase |-> PhaseRed, err |-> ""]
    ELSE NextWithMode(current, mode)

----------------------------------------------------------------------------
\* Mutant: only the edges of the transition table, without the loop back.
CanTransition_TableOnly(from, to) ==
    from \in DOMAIN transitions /\ transitions[from] = to

CanTransition(from, to) ==
    \/ from \in DOMAIN transitions /\ transitions[from] = to
    \/ from = PhaseRefactor /\ to = PhaseRed

----------------------------------------------------------------------------

(* internal/phase/blockers.go *)

\* A blocker is a string; the formatted ones keep the values they print.
\* Mutant: an "error" result is not compared with the expected one.
checkTestResult_ErrorIgnored(s, phase, mode) ==
    IF s.LastTestResult = ""
    THEN <<"No test result recorded">>
    ELSE IF s.LastTestResult # "error"
            /\ s.LastTestResult # ExpectedTestResult(phase, mode)
    THEN <<"Test result '" \o s.LastTestResult \o "' does not match expected '"
              \o ExpectedTestResult(phase, mode) \o "'">>
    ELSE << >>

checkTestResult(s, phase, mode) ==
    IF s.LastTestResult = ""
    THEN <<"No test result recorded">>
    ELSE IF s.LastTestResult # ExpectedTestResult(phase, mode)
    THEN <<"Test result '" \o s.LastTestResult \o "' does not match expected '"
              \o ExpectedTestResult(phase, mode) \o "'">>
    ELSE << >>

\* Mutant: "No spec selected" is reported without looking for an active spec.
GetBlockers_SelectedAlways(s) ==
    LET mode == GetMode(s)
    IN  IF s.Phase = PhaseRed
        THEN (IF Len(ActiveSpecs(s)) = 0 THEN <<"No active specs">> ELSE << >>)
             \o (IF s.CurrentSpecID = {} THEN <<"No spec selected">> ELSE << >>)
             \o checkTestResult(s, s.Phase, mode)
        ELSE IF s.Phase = PhaseGreen
        THEN checkTestResult(s, s.Phase, mode)
        ELSE IF s.Phase = PhaseRefactor
        THEN checkTestResult(s, s.Phase, mode)
             \o (IF Len(PendingReflections(s)) > 0
                 THEN <<ToString(Len(PendingReflections(s)))
                           \o " reflection questions unanswered">>
                 ELSE << >>)
        ELSE IF s.Phase = PhaseDone
        THEN <<"Cannot advance past done">>
        ELSE << >>

GetBlockers(s) ==
    LET mode == GetMode(s)
    IN  IF s.Phase = PhaseRed
        THEN (IF Len(ActiveSpecs(s)) = 0 THEN <<"No active specs">> ELSE << >>)
             \o (IF s.CurrentSpecID = {} /\ Len(ActiveSpecs(s)) > 0
                 THEN <<"No spec selected">> ELSE << >>)
             \o checkTestResult(s, s.Phase, mode)
        ELSE IF s.Phase = PhaseGreen
        THEN checkTestResult(s, s.Phase, mode)
        ELSE IF s.Phase = PhaseRefactor
        THEN checkTestResult(s, s.Phase, mode)
             \o (IF Len(PendingReflections(s)) > 0
                 THEN <<ToString(Len(PendingReflections(s)))
                           \o " reflection questions unanswered">>
                 ELSE << >>)
        ELSE IF s.Phase = PhaseDone
        THEN <<"Cannot advance past done">>
        ELSE << >>

----------------------------------------------------------------------------

(* internal/reflection *)

MinAnswerWords == 5

NumQuestions == 7

\* Mutant: the list is one question short (the help text of `refactor
\* reflect` speaks of 6 questions).
DefaultQuestions_Six == [i \in 1..(NumQuestions - 1) |-> [ID |-> i, Answer |-> << >>]]

DefaultQuestions == [i \in 1..NumQuestions |-> [ID |-> i, Answer |-> << >>]]

IsSpace(c) == c \in {" ", "\t", "\n"}

\* len(strings.Fields(text)): the number of maximal runs of non-space characters.
FieldCount(text) ==
    Cardinality({i \in 1..Len(text) :
        /\ ~IsSpace(text[i])
        /\ (i = 1 \/ IsSpace(text[i - 1]))})

\* Mutant: the length of the answer is counted in characters, not in words.
ValidateAnswer_CountsChars(answer) ==
    IF Len(answer) < MinAnswerWords
    THEN "answer must be at least 5 words"
    ELSE ""

ValidateAnswer(answer) ==
    IF FieldCount(answer) < MinAnswerWords
    THEN "answer must be at least 5 words"
    ELSE ""

----------------------------------------------------------------------------
(* Inputs of the commands *)

\* Values of a --test-result flag ("" when the flag is not given).
TestResultFlags == {"", "pass", "fail", "error", "maybe"}

\* Values of the argument of `phase set`.
PhaseArgs == {PhaseRed, PhaseGreen, PhaseRefactor, PhaseDone, "blue"}

\* Values of init --test-cmd ("" when the flag is not given).
TestCmdFlags == {"", "go test ./..."}

\* Spec descriptions.
Descriptions == {"first"}

\* A command-line argument read with strconv.Atoi: a number or not.
Num(n) == [isNum |-> TRUE, n |-> n]

NotANumber == [isNum |-> FALSE, n |-> 0]

IdArgs == {Num(n) : n \in 1..(MaxSpecs + 1)} \cup {NotANumber}

\* Question numbers given to `refactor reflect`: the lowest pending
\* question, every answered question (to answer it again), the two numbers
\* next to the valid range, and a word that is no number.
QuestionArgs(s) ==
    LET ids     == {s.Reflections[i].ID : i \in 1..Len(s.Reflections)}
        pending == {s.Reflections[i].ID : i \in {j \in 1..Len(s.Reflections) :
                                                   s.Reflections[j].Answer = << >>}}
        lowest  == {n \in pending : \A m \in pending : n <= m}
    IN  {Num(n) : n \in lowest \cup (ids \ pending) \cup {0, NumQuestions + 1}}
            \cup {NotANumber}

\* Values of refactor reflect --answer: empty, blank, two words, four words
\* with repeated spaces, five words.
AnswerFlags ==
    { << >>,
      <<" ", " ">>,
      <<"n", "o">>,
      <<"a", " ", " ", "b", " ", "c", " ", " ", "d", " ">>,
      <<"a", " ", "b", " ", "c", " ", "d", " ", "e">> }

\* What running the configured test command gives: whether it exited with
\* an error and whether its output holds one of the infraErrorPatterns.
TestRuns == [execErr : BOOLEAN, infra : BOOLEAN]

\* The test runs `complete` can see: it runs the test command only when it
\* has neither a flag nor a cached result and a test command is configured.
CompleteRuns(s, flag) ==
    IF flag = "" /\ s.LastTestResult = "" /\ s.TestCmd # ""
    THEN TestRuns
    ELSE {[execErr |-> FALSE, infra |-> FALSE]}

\* The argument lists of a command invoked with one or with two arguments.
ArgLists(S) == {<<a>> : a \in S} \cup {<<a, b>> : a \in S, b \in S}

----------------------------------------------------------------------------
(* cmd/test.go *)

classifyTestResult(run) ==
    IF ~run.execErr THEN "pass"
    ELSE IF run.infra THEN "error"
    ELSE "fail"

\* Mutant: the result is stored without a test_run event.
testCmd_NoEvent(s, run) ==
    IF s.TestCmd = "" THEN Fail(s, "no test command configured")
    ELSE Ok([s EXCEPT !.LastTestResult = classifyTestResult(run)])

testCmd(s, run) ==
    IF s.TestCmd = "" THEN Fail(s, "no test command configured")
    ELSE LET result == classifyTestResult(run)
         IN  Ok(AddEvent([s EXCEPT !.LastTestResult = result],
                         [Event("test_run") EXCEPT !.Result = result]))

----------------------------------------------------------------------------
(* cmd/init.go *)

initCmd(retrofitFlag, testCmdFlag) ==
    LET mode == IF retrofitFlag THEN ModeRetrofit ELSE ModeGreenfield
        s0   == [NewSession EXCEPT !.Mode = mode]
        s1   == IF testCmdFlag # "" THEN [s0 EXCEPT !.TestCmd = testCmdFlag] ELSE s0
    IN  AddEvent(s1, [Event("init") EXCEPT !.Result = GetMode(s1)])

----------------------------------------------------------------------------
(* cmd/spec.go *)

RECURSIVE AddSpecs(_, _)
AddSpecs(s, args) ==
    IF args = << >> THEN s
    ELSE AddSpecs(AddSpec(s, Head(args)), Tail(args))

specAddCmd(s, args) ==
    Ok(AddEvent(AddSpecs(s, args),
                [Event("spec_add") EXCEPT !.SpecCount = Len(args)]))

\* The loop over the ids of `spec done`: the first failure returns.
RECURSIVE CompleteSpecs(_, _)
CompleteSpecs(s, args) ==
    IF args = << >> THEN Ok(s)
    ELSE IF ~Head(args).isNum THEN Fail(s, "spec ID must be a number")
    ELSE LET r == CompleteSpec(s, Head(args).n)
         IN  IF r.err # "" THEN r ELSE CompleteSpecs(r.s, Tail(args))

\* all: the --all flag; args: the ids.
\* Mutant: the session is saved as it is in memory when an id fails.
specDoneCmd_SavesPartial(s, all, args) ==
    IF all /\ Len(args) > 0 THEN Fail(s, "cannot use --all with specific spec IDs")
    ELSE IF ~all /\ Len(args) = 0 THEN Fail(s, "provide at least one spec ID, or use --all")
    ELSE IF all
    THEN LET c == CompleteAllSpecs(s)
         IN  IF c.count = 0 THEN Fail(s, "no active specs to mark as done")
             ELSE Ok(AddEvent(c.s, [Event("spec_done") EXCEPT !.SpecCount = c.count]))
    ELSE LET r == CompleteSpecs(s, args)
         IN  IF r.err # "" THEN Fail(r.s, r.err)
             ELSE Ok(AddEvent(r.s, [Event("spec_done") EXCEPT !.SpecCount = Len(args)]))

specDoneCmd(s, all, args) ==
    IF all /\ Len(args) > 0 THEN Fail(s, "cannot use --all with specific spec IDs")
    ELSE IF ~all /\ Len(args) = 0 THEN Fail(s, "provide at least one spec ID, or use --all")
    ELSE IF all
    THEN LET c == CompleteAllSpecs(s)
         IN  IF c.count = 0 THEN Fail(s, "no active specs to mark as done")
             ELSE Ok(AddEvent(c.s, [Event("spec_done") EXCEPT !.SpecCount = c.count]))
    ELSE LET r == CompleteSpecs(s, args)
         IN  IF r.err # "" THEN Fail(s, r.err)
             ELSE Ok(AddEvent(r.s, [Event("spec_done") EXCEPT !.SpecCount = Len(args)]))

\* `spec pick <id>`: its code is not among the sources; from its tests
\* (TestSpecPick...) and the command table of the README.
specPickCmd(s, arg) ==
    IF s.Phase # PhaseRed THEN Fail(s, "spec pick is only available in the RED phase")
    ELSE IF ~arg.isNum THEN Fail(s, "spec ID must be a number")
    ELSE LET r == SetCurrentSpec(s, arg.n)
         IN  IF r.err # "" THEN Fail(s, r.err)
             ELSE Ok(AddEvent(r.s, [Event("spec_picked") EXCEPT !.SpecID = arg.n]))

----------------------------------------------------------------------------
(* cmd: phase next, phase set *)

\* explicit flag > session's last_test_result > none.
effectiveResult(s, flag) ==
    IF flag = "" /\ s.LastTestResult # "" THEN s.LastTestResult ELSE flag

\* Mutant: the comparison with the expected result is missing.
validateResult_NoMismatch(result, expected) ==
    IF result # ""
    THEN IF result = "error"
         THEN "cannot advance: last test run was an infrastructure/environment error"
         ELSE IF result # "pass" /\ result # "fail"
         THEN "--test-result must be 'pass' or 'fail'"
         ELSE ""
    ELSE ""

\* The validation of the effective result by `phase next`; with no result
\* the command prints a warning and goes on.
validateResult(result, expected) ==
    IF result # ""
    THEN IF result = "error"
         THEN "cannot advance: last test run was an infrastructure/environment error"
         ELSE IF result # "pass" /\ result # "fail"
         THEN "--test-result must be 'pass' or 'fail'"
         ELSE IF result # expected
         THEN "cannot advance: phase expects another test result"
         ELSE ""
    ELSE ""

\* The reflection gate of `phase next`.
reflectionGate(s) ==
    IF s.Phase = PhaseRefactor /\ Len(s.Reflections) > 0 /\ ~AllReflectionsAnswered(s)
    THEN "cannot advance: reflection question(s) unanswered"
    ELSE ""

\* The successor phase `phase next` asks the state machine for.
phaseNextTarget(s) == NextWithMode(s.Phase, GetMode(s))

\* Mutant: the questions are loaded on arrival at REFACTOR only when the
\* list is empty, as `phase set` does.
phaseNextCmd_KeepsLoaded(s, flag) ==
    LET current  == s.Phase
        mode     == GetMode(s)
        expected == ExpectedTestResult(current, mode)
        result   == effectiveResult(s, flag)
    IN  IF current = PhaseRed /\ Len(ActiveSpecs(s)) = 0
        THEN Fail(s, "cannot advance from red phase: no active specs")
        ELSE IF validateResult(result, expected) # ""
        THEN Fail(s, validateResult(result, expected))
        ELSE IF reflectionGate(s) # ""
        THEN Fail(s, reflectionGate(s))
        ELSE LET s1   == IF s.LastTestResult # ""
                         THEN [s EXCEPT !.LastTestResult = ""] ELSE s
                 next == phaseNextTarget(s)
             IN  IF next.err # "" THEN Fail(s, next.err)
                 ELSE LET s2 == [s1 EXCEPT !.Phase = next.phase]
                          s3 == IF next.phase = PhaseRefactor /\ Len(s2.Reflections) = 0
                                THEN [s2 EXCEPT !.Reflections = DefaultQuestions]
                                ELSE s2
                      IN  Ok(AddEvent(s3, [Event("phase_next") EXCEPT
                                              !.From   = current,
                                              !.To     = next.phase,
                                              !.Result = result]))

phaseNextCmd(s, flag) ==
    LET current  == s.Phase
        mode     == GetMode(s)
        expected == ExpectedTestResult(current, mode)
        result   == effectiveResult(s, flag)
    IN  IF current = PhaseRed /\ Len(ActiveSpecs(s)) = 0
        THEN Fail(s, "cannot advance from red phase: no active specs")
        ELSE IF validateResult(result, expected) # ""
        THEN Fail(s, validateResult(result, expected))
        ELSE IF reflectionGate(s) # ""
        THEN Fail(s, reflectionGate(s))
        ELSE LET s1   == IF s.LastTestResult # ""
                         THEN [s EXCEPT !.LastTestResult = ""] ELSE s
                 next == phaseNextTarget(s)
             IN  IF next.err # "" THEN Fail(s, next.err)
                 ELSE LET s2 == [s1 EXCEPT !.Phase = next.phase]
                          s3 == IF next.phase = PhaseRefactor
                                THEN [s2 EXCEPT !.Reflections = DefaultQuestions]
                                ELSE s2
                      IN  Ok(AddEvent(s3, [Event("phase_next") EXCEPT
                                              !.From   = current,
                                              !.To     = next.phase,
                                              !.Result = result]))

\* Mutant: the questions are loaded anew on every `phase set refactor`.
phaseSetCmd_AlwaysReloads(s, arg) ==
    IF ~IsValid(arg) THEN Fail(s, "invalid phase")
    ELSE LET old == s.Phase
             s1  == [s EXCEPT !.Phase = arg]
             s2  == IF arg = PhaseRefactor
                    THEN [s1 EXCEPT !.Reflections = DefaultQuestions]
                    ELSE s1
         IN  Ok(AddEvent(s2, [Event("phase_set") EXCEPT !.From = old, !.To = arg]))

phaseSetCmd(s, arg) ==
    IF ~IsValid(arg) THEN Fail(s, "invalid phase")
    ELSE LET old == s.Phase
             s1  == [s EXCEPT !.Phase = arg]
             s2  == IF arg = PhaseRefactor /\ Len(s1.Reflections) = 0
                    THEN [s1 EXCEPT !.Reflections = DefaultQuestions]
                    ELSE s1
         IN  Ok(AddEvent(s2, [Event("phase_set") EXCEPT !.From = old, !.To = arg]))

----------------------------------------------------------------------------
(* cmd/refactor.go: refactor reflect *)

reflectCmd(s, arg, answerFlag) ==
    IF s.Phase # PhaseRefactor THEN Fail(s, "not in refactor phase")
    ELSE IF ~arg.isNum THEN Fail(s, "invalid question number")
    ELSE IF answerFlag = << >> THEN Fail(s, "--answer is required")
    ELSE IF ValidateAnswer(answerFlag) # "" THEN Fail(s, ValidateAnswer(answerFlag))
    ELSE LET r == AnswerReflection(s, arg.n, answerFlag)
         IN  IF r.err # "" THEN Fail(s, r.err)
             ELSE Ok(AddEvent(r.s, [Event("reflection_answer") EXCEPT !.Result = arg.n]))

----------------------------------------------------------------------------
(* cmd: complete *)

\* explicit flag > cached session result > run of the test command.
completeResult(s, flag, run) ==
    LET cached == IF flag = "" /\ s.LastTestResult # "" THEN s.LastTestResult ELSE flag
    IN  IF cached = "" /\ s.TestCmd # "" THEN classifyTestResult(run) ELSE cached

\* Mutant: only a missing result and an infrastructure error are refused.
completeValidate_AcceptsFail(testResult) ==
    IF testResult = "" THEN "cannot complete: no test result available"
    ELSE IF testResult = "error"
    THEN "cannot complete: last test run was an infrastructure/environment error"
    ELSE ""

completeValidate(testResult) ==
    IF testResult = "" THEN "cannot complete: no test result available"
    ELSE IF testResult = "error"
    THEN "cannot complete: last test run was an infrastructure/environment error"
    ELSE IF testResult # "pass" THEN "cannot complete: tests are failing"
    ELSE ""

completeGate(s) ==
    IF s.Phase = PhaseRefactor /\ Len(s.Reflections) > 0 /\ ~AllReflectionsAnswered(s)
    THEN "cannot complete: reflection question(s) unanswered"
    ELSE ""

\* for s.Phase != PhaseDone { s.Phase = NextWithMode(s.Phase, mode) }
\* Mutant: one transition instead of the loop up to DONE.
advanceToDone_OneStep(s, mode) ==
    IF s.Phase = PhaseDone THEN Ok(s)
    ELSE LET next == NextWithMode(s.Phase, mode)
         IN  IF next.err # "" THEN Fail(s, next.err)
             ELSE Ok([s EXCEPT !.Phase = next.phase])

RECURSIVE advanceToDone(_, _)
advanceToDone(s, mode) ==
    IF s.Phase = PhaseDone THEN Ok(s)
    ELSE LET next == NextWithMode(s.Phase, mode)
         IN  IF next.err # "" THEN Fail(s, next.err)
             ELSE advanceToDone([s EXCEPT !.Phase = next.phase], mode)

\* Mutant: the cached test result is not cleared after it was used.
completeCmd_KeepsResult(s, flag, run) ==
    LET testResult == completeResult(s, flag, run)
    IN  IF s.Phase = PhaseDone /\ Len(ActiveSpecs(s)) = 0
        THEN Fail(s, "nothing to complete")
        ELSE IF completeValidate(testResult) # ""
        THEN Fail(s, completeValidate(testResult))
        ELSE IF completeGate(s) # "" THEN Fail(s, completeGate(s))
        ELSE LET a == advanceToDone(s, GetMode(s))
             IN  IF a.err # "" THEN Fail(s, a.err)
                 ELSE LET c == CompleteAllSpecs(a.s)
                      IN  Ok(AddEvent(c.s, [Event("complete") EXCEPT
                                               !.Result    = testResult,
                                               !.SpecCount = c.count]))

completeCmd(s, flag, run) ==
    LET testResult == completeResult(s, flag, run)
    IN  IF s.Phase = PhaseDone /\ Len(ActiveSpecs(s)) = 0
        THEN Fail(s, "nothing to complete")
        ELSE IF completeValidate(testResult) # ""
        THEN Fail(s, completeValidate(testResult))
        ELSE IF completeGate(s) # "" THEN Fail(s, completeGate(s))
        ELSE LET a == advanceToDone(s, GetMode(s))
             IN  IF a.err # "" THEN Fail(s, a.err)
                 ELSE LET c  == CompleteAllSpecs(a.s)
                          s1 == AddEvent(c.s, [Event("complete") EXCEPT
                                                  !.Result    = testResult,
                                                  !.SpecCount = c.count])
                      IN  Ok([s1 EXCEPT !.LastTestResult = ""])

----------------------------------------------------------------------------
(* The commands as steps on the persisted document *)

Init ==
    \E retrofitFlag \in BOOLEAN, testCmdFlag \in TestCmdFlags :
        session = initCmd(retrofitFlag, testCmdFlag)

SpecAdd ==
    \E args \in ArgLists(Descriptions) :
        /\ Len(session.Specs) + Len(args) <= MaxSpecs
        /\ session' = specAddCmd(session, args).s

SpecDone ==
    \E args \in ArgLists(IdArgs) :
        session' = specDoneCmd(session, FALSE, args).s

SpecDoneAll ==
    session' = specDoneCmd(session, TRUE, << >>).s

SpecPick ==
    \E arg \in IdArgs :
        session' = specPickCmd(session, arg).s

Test ==
    \E run \in TestRuns :
        session' = testCmd(session, run).s

PhaseNext ==
    \E flag \in TestResultFlags :
        session' = phaseNextCmd(session, flag).s

PhaseSet ==
    \E arg \in PhaseArgs :
        session' = phaseSetCmd(session, arg).s

Reflect ==
    \E arg \in QuestionArgs(session), answerFlag \in AnswerFlags :
        session' = reflectCmd(session, arg, answerFlag).s

Complete ==
    \E flag \in TestResultFlags :
        \E run \in CompleteRuns(session, flag) :
            session' = completeCmd(session, flag, run).s

Next ==
    \/ SpecAdd
    \/ SpecDone
    \/ SpecDoneAll
    \/ SpecPick
    \/ Test
    \/ PhaseNext
    \/ PhaseSet
    \/ Reflect
    \/ Complete

Spec == Init /\ [][Next]_vars

----------------------------------------------------------------------------
(* The commands without `phase set` *)

NextWithoutPhaseSet ==
    \/ SpecAdd
    \/ SpecDone
    \/ SpecDoneAll
    \/ SpecPick
    \/ Test
    \/ PhaseNext
    \/ Reflect
    \/ Complete

SpecWithoutPhaseSet == Init /\ [][NextWithoutPhaseSet]_vars

----------------------------------------------------------------------------

(* The commands with the whole event history kept *)

MaxEvents == 3

\* What a command has in memory after LoadOrFail. No command reads the
\* history, so the loaded entries are set aside here and the History of the
\* command's result holds what this invocation appended.
Loaded(s) == [s EXCEPT !.History = << >>]

\* Save after a command that returned r: AddEvent's append(s.History, e)
\* puts the appended entries behind the loaded ones; a command that
\* failed returned before Save.
SaveWithHistory(r) ==
    /\ Len(session.History) < MaxEvents
    /\ session' = [r.s EXCEPT !.History = session.History \o r.s.History]

HistorySpecAdd ==
    \E args \in ArgLists(Descriptions) :
        /\ Len(session.Specs) + Len(args) <= MaxSpecs
        /\ SaveWithHistory(specAddCmd(Loaded(session), args))

HistorySpecDone ==
    \E args \in ArgLists(IdArgs) :
        SaveWithHistory(specDoneCmd(Loaded(session), FALSE, args))

HistorySpecDoneAll ==
    SaveWithHistory(specDoneCmd(Loaded(session), TRUE, << >>))

HistorySpecPick ==
    \E arg \in IdArgs :
        SaveWithHistory(specPickCmd(Loaded(session), arg))

HistoryTest ==
    \E run \in TestRuns :
        SaveWithHistory(testCmd(Loaded(session), run))

HistoryPhaseNext ==
    \E flag \in TestResultFlags :
        SaveWithHistory(phaseNextCmd(Loaded(session), flag))

HistoryPhaseSet ==
    \E arg \in PhaseArgs :
        SaveWithHistory(phaseSetCmd(Loaded(session), arg))

HistoryReflect ==
    \E arg \in QuestionArgs(session), answerFlag \in AnswerFlags :
        SaveWithHistory(reflectCmd(Loaded(session), arg, answerFlag))

HistoryComplete ==
    \E flag \in TestResultFlags :
        \E run \in CompleteRuns(session, flag) :
            SaveWithHistory(completeCmd(Loaded(session), flag, run))

HistoryNext ==
    \/ HistorySpecAdd
    \/ HistorySpecDone
    \/ HistorySpecDoneAll
    \/ HistorySpecPick
    \/ HistoryTest
    \/ HistoryPhaseNext
    \/ HistoryPhaseSet
    \/ HistoryReflect
    \/ HistoryComplete

HistorySpec == Init /\ [][HistoryNext]_vars

----------------------------------------------------------------------------

(* Two `spec add` invocations at work on the same session file *)

\* In this specification `session` holds the file and the two invocations:
\* File is the content of .tdd-ai.json, Writer the invocation whose write
\* came last (0: none yet), Inv each invocation's position, arguments,
\* in-memory session and the ids it printed.
Invocations == {1, 2}

\* json.MarshalIndent of a Session, in units: the fields before "specs",
\* one unit per spec, the fields after "specs".
Marshal(s) ==
    <<[unit |-> "head", Phase |-> s.Phase, Mode |-> s.Mode,
       TestCmd |-> s.TestCmd, LastTestResult |-> s.LastTestResult]>>
    \o [i \in 1..Len(s.Specs) |-> [unit |-> "spec", Spec |-> s.Specs[i]]]
    \o <<[unit |-> "tail", NextID |-> s.NextID, CurrentSpecID |-> s.CurrentSpecID,
          Iteration |-> s.Iteration, Reflections |-> s.Reflections,
          History |-> s.History]>>

\* json.Unmarshal of the file's content: an error unless the content is one
\* whole document.
Unmarshal(data) ==
    IF /\ Len(data) >= 2
       /\ data[1].unit = "head"
       /\ data[Len(data)].unit = "tail"
       /\ \A i \in 2..(Len(data) - 1) : data[i].unit = "spec"
    THEN Ok([Phase          |-> data[1].Phase,
             Mode           |-> data[1].Mode,
             TestCmd        |-> data[1].TestCmd,
             LastTestResult |-> data[1].LastTestResult,
             Specs          |-> [i \in 1..(Len(data) - 2) |-> data[i + 1].Spec],
             NextID         |-> data[Len(data)].NextID,
             CurrentSpecID  |-> data[Len(data)].CurrentSpecID,
             Iteration      |-> data[Len(data)].Iteration,
             Reflections    |-> data[Len(data)].Reflections,
             History        |-> data[Len(data)].History])
    ELSE Fail(NewSession, "parsing session file")

\* A write of data at offset 0 of a file that holds content: what lies
\* behind the written part stays.
WriteAt0(content, data) == data \o SubSeq(content, Len(data) + 1, Len(content))

\* The session files the two invocations start from: a new session, or one
\* with specs already added.
RaceFiles ==
    { s \in { AddSpecs(initCmd(retrofitFlag, ""), args) :
                  retrofitFlag \in BOOLEAN,
                  args \in {<< >>} \cup ArgLists(Descriptions) } :
          Len(s.Specs) + 2 <= MaxSpecs }

RaceInit ==
    \E s \in RaceFiles, args1 \in ArgLists(Descriptions), args2 \in ArgLists(Descriptions) :
        session = [File   |-> Marshal(s),
                   Writer |-> 0,
                   Inv    |-> [p \in Invocations |->
                                 [pc       |-> "load",
                                  args     |-> IF p = 1 THEN args1 ELSE args2,
                                  s        |-> NewSession,
                                  reported |-> {},
                                  err      |-> ""]]]

\* session.LoadOrFail, then the AddSpec calls and AddEvent in memory.
RaceLoad(p) ==
    LET inv    == session.Inv[p]
        loaded == Unmarshal(session.File)
    IN  /\ inv.pc = "load"
        /\ session' =
              IF loaded.err # ""
              THEN [session EXCEPT !.Inv[p].pc = "done", !.Inv[p].err = loaded.err]
              ELSE [session EXCEPT
                       !.Inv[p].pc       = "open",
                       !.Inv[p].s        = specAddCmd(loaded.s, inv.args).s,
                       !.Inv[p].reported =
                           loaded.s.NextID .. (loaded.s.NextID + Len(inv.args) - 1)]

\* session.Save, first half: os.WriteFile opens the file with O_TRUNC.
RaceOpen(p) ==
    /\ session.Inv[p].pc = "open"
    /\ session' = [session EXCEPT !.Inv[p].pc = "write", !.File = << >>]

\* session.Save, second half: the marshalled session is written from
\* offset 0 of the opened file.
RaceWrite(p) ==
    /\ session.Inv[p].pc = "write"
    /\ session' = [session EXCEPT
                      !.Inv[p].pc = "done",
                      !.Writer    = p,
                      !.File      = WriteAt0(@, Marshal(session.Inv[p].s))]

RaceNext == \E p \in Invocations : RaceLoad(p) \/ RaceOpen(p) \/ RaceWrite(p)

RaceSpec == RaceInit /\ [][RaceNext]_vars

----------------------------------------------------------------------------

(* The mutators of internal/types called directly                         *)
(*                                                                        *)
(* A second specification for the claims about the Session methods        *)
(* themselves: any caller, any order, also with arguments the commands    *)
(* would have rejected before the call.                                   *)

\* Spec ids given to the methods: every id in use, 0 and one past the end.
TypesIds == 0..(MaxSpecs + 1)

\* Question ids given to AnswerReflection: the lowest pending question,
\* every answered one, and the two numbers next to the valid range.
TypesQuestionIds(s) == {arg.n : arg \in QuestionArgs(s) \ {NotANumber}}

\* Answers given to AnswerReflection: two words and five words.
TypesAnswers ==
    { <<"n", "o">>,
      <<"a", " ", "b", " ", "c", " ", "d", " ", "e">> }

\* A new session, without and with the reflection questions loaded.
TypesInit ==
    session \in {NewSession, [NewSession EXCEPT !.Reflections = DefaultQuestions]}

CallAddSpec ==
    /\ Len(session.Specs) < MaxSpecs
    /\ \E description \in Descriptions :
          session' = AddSpec(session, description)

CallCompleteSpec ==
    \E id \in TypesIds : session' = CompleteSpec(session, id).s

CallCompleteAllSpecs == session' = CompleteAllSpecs(session).s

CallSetCurrentSpec ==
    \E id \in TypesIds : session' = SetCurrentSpec(session, id).s

CallCompleteCurrentSpec == session' = CompleteCurrentSpec(session).s

CallAnswerReflection ==
    \E id \in TypesQuestionIds(session), answer \in TypesAnswers :
        session' = AnswerReflection(session, id, answer).s

TypesNext ==
    \/ CallAddSpec
    \/ CallCompleteSpec
    \/ CallCompleteAllSpecs
    \/ CallSetCurrentSpec
    \/ CallCompleteCurrentSpec
    \/ CallAnswerReflection

TypesSpec == TypesInit /\ [][TypesNext]_vars

----------------------------------------------------------------------------

(* The functions of internal/phase called directly                        *)
(*                                                                        *)
(* A third specification for the claims about the state machine and the   *)
(* blockers as functions: the session is any session a command can have   *)
(* saved, and each step is one call whose result the caller stores in     *)
(* s.Phase, as `complete` does in its loop.                               *)

\* The spec lists of at most MaxSpecs specs, ids in the order of creation.
PhaseSpecLists ==
    UNION { { [i \in 1..n |-> [ID          |-> i,
                               Description |-> "first",
                               Status      |-> f[i]]] :
                f \in [1..n -> {SpecStatusActive, SpecStatusCompleted}] } :
            n \in 0..MaxSpecs }

\* The reflection lists: not loaded, nothing answered, the first question
\* answered, everything answered.
PhaseReflectionLists ==
    LET answer == <<"a", " ", "b", " ", "c", " ", "d", " ", "e">>
    IN  { << >>,
          DefaultQuestions,
          [DefaultQuestions EXCEPT ![1].Answer = answer],
          [i \in 1..NumQuestions |-> [ID |-> i, Answer |-> answer]] }

PhaseSessions ==
    { [NewSession EXCEPT !.Phase          = p,
                         !.Mode           = m,
                         !.LastTestResult = result,
                         !.Specs          = specs,
                         !.NextID         = Len(specs) + 1,
                         !.CurrentSpecID  = current,
                         !.Reflections    = reflections] :
        p \in {PhaseRed, PhaseGreen, PhaseRefactor, PhaseDone},
        m \in {"", ModeGreenfield, ModeRetrofit},
        result \in {"", "pass", "fail", "error"},
        specs \in PhaseSpecLists,
        current \in {{}} \cup {{id} : id \in 1..MaxSpecs},
        reflections \in PhaseReflectionLists }

PhaseInit ==
    /\ session \in PhaseSessions
    /\ \A id \in session.CurrentSpecID : id <= Len(session.Specs)

CallNextWithMode ==
    LET r == NextWithMode(session.Phase, GetMode(session))
    IN  /\ r.err = ""
        /\ session' = [session EXCEPT !.Phase = r.phase]

CallNextInLoop ==
    LET r == NextInLoop(session.Phase, GetMode(session),
                        Len(RemainingSpecs(session)) > 0)
    IN  /\ r.err = ""
        /\ session' = [session EXCEPT !.Phase = r.phase]

CallCanTransition ==
    \E to \in {PhaseRed, PhaseGreen, PhaseRefactor, PhaseDone} :
        /\ CanTransition(session.Phase, to)
        /\ session' = [session EXCEPT !.Phase = to]

\* `tdd-ai blockers`: loads the session and prints; nothing is saved.
blockersCmd(s) ==
    [Phase      |-> s.Phase,
     Blockers   |-> GetBlockers(s),
     CanAdvance |-> Len(GetBlockers(s)) = 0]

CallGetBlockers ==
    /\ blockersCmd(session).CanAdvance \in BOOLEAN
    /\ session' = session

\* internal/guide Generate. Guidance has the fields Generate fills; it has
\* no field for blockers or for an expected test result, so a reader of
\* the guidance finds none: Blockers and ExpectedTestResult stand for what
\* the guidance reports of them. Instructions and Rules are fixed texts.
Generate(s) ==
    LET mode == GetMode(s)
        next == NextWithMode(s.Phase, mode)
    IN  [Phase              |-> s.Phase,
         Mode               |-> mode,
         TestCmd            |-> s.TestCmd,
         Specs              |-> ActiveSpecs(s),
         NextPhase          |-> IF next.err = "" THEN next.phase ELSE "",
         Reflections        |-> IF s.Phase = PhaseRefactor
                                THEN s.Reflections ELSE << >>,
         Blockers           |-> << >>,
         ExpectedTestResult |-> ""]

\* `tdd-ai guide`: loads the session and prints the guidance; nothing is saved.
CallGenerate ==
    /\ Generate(session).Phase = session.Phase
    /\ session' = session

PhaseNextStep ==
    \/ CallNextWithMode
    \/ CallNextInLoop
    \/ CallCanTransition
    \/ CallGetBlockers
    \/ CallGenerate

PhaseSpec == PhaseInit /\ [][PhaseNextStep]_vars

----------------------------------------------------------------------------

(* Properties *)

HasActive(s) == Len(ActiveSpecs(s)) > 0

HasPending(s) == Len(PendingReflections(s)) > 0

\* The most recent event is a `phase next` from the phase `from`.
LastIsPhaseNextFrom(from) ==
    /\ Len(session.History) > 0
    /\ session.History[Len(session.History)].Action = "phase_next"
    /\ session.History[Len(session.History)].From = from

LastEvent == session.History[Len(session.History)]

----------------------------------------------------------------------------
(* The workflow of the README's prompt: an actor who only follows it *)

\* The specs are added before anything else is done.
WorkflowSpecAdd ==
    /\ LastEvent.Action \in {"init", "spec_add"}
    /\ SpecAdd

\* In RED, with no spec selected, an ACTIVE spec is picked.
WorkflowPick ==
    /\ session.Phase = PhaseRed
    /\ session.CurrentSpecID = {}
    /\ \E i \in DOMAIN session.Specs :
          /\ session.Specs[i].Status = SpecStatusActive
          /\ session' = specPickCmd(session, Num(session.Specs[i].ID)).s

\* The test command, when one is configured, is run and its result stored.
WorkflowTest ==
    /\ session.Phase # PhaseDone
    /\ Test

\* In REFACTOR the lowest unanswered question is answered with five words.
WorkflowReflect ==
    /\ HasPending(session)
    /\ session' = reflectCmd(session, Num(PendingReflections(session)[1].ID),
                             <<"a", " ", "b", " ", "c", " ", "d", " ", "e">>).s

\* `phase next` with the result the phase expects, once a spec is picked
\* and, in REFACTOR, every question is answered.
WorkflowPhaseNext ==
    /\ session.Phase = PhaseRed => session.CurrentSpecID # {}
    /\ session.Phase = PhaseRefactor => ~HasPending(session)
    /\ session' = phaseNextCmd(session,
                               ExpectedTestResult(session.Phase, GetMode(session))).s

WorkflowNext ==
    \/ WorkflowSpecAdd
    \/ WorkflowPick
    \/ WorkflowTest
    \/ WorkflowReflect
    \/ WorkflowPhaseNext

WorkflowSpec == Init /\ [][WorkflowNext]_vars

----------------------------------------------------------------------------

\* C1: in every reachable state CurrentSpecID is unset or is the id of a
\* spec whose status is ACTIVE.
C1_CurrentSpecIsActive ==
    \A id \in session.CurrentSpecID :
        \E i \in 1..Len(session.Specs) :
            /\ session.Specs[i].ID = id
            /\ session.Specs[i].Status = SpecStatusActive

C3_MismatchRefused ==
    \A flag \in TestResultFlags :
        LET result == IF flag # "" THEN flag ELSE session.LastTestResult
            r      == phaseNextCmd(session, flag)
        IN  (result # "" /\ result # ExpectedTestResult(session.Phase, GetMode(session)))
                => (r.err # "" /\ r.s = session)

\* C3 witness: a stored result that is neither empty nor the expected one,
\* in a phase `phase next` could otherwise leave, and the refusal it causes.
C3_Witness ==
    /\ session.Phase = PhaseGreen
    /\ session.LastTestResult = "fail"
    /\ phaseNextCmd(session, "").err = "cannot advance: phase expects another test result"
    /\ phaseNextCmd(session, "pass").err = ""

\* C4: while the stored LastTestResult is "error", no `phase next` and no
\* `complete`, whatever its flag, advances the phase or completes a spec.
C4_StoredErrorBlocks ==
    session.LastTestResult = "error" =>
        /\ \A flag \in TestResultFlags :
              phaseNextCmd(session, flag).s = session
        /\ \A flag \in TestResultFlags : \A run \in CompleteRuns(session, flag) :
              completeCmd(session, flag, run).s = session

\* C5: in RED with CurrentSpecID unset and an ACTIVE spec, `phase next`
\* refuses and leaves the session unchanged, whatever the test result.
C5_RedRequiresCurrentSpec ==
    ( /\ session.Phase = PhaseRed
      /\ session.CurrentSpecID = {}
      /\ HasActive(session) )
        => \A flag \in TestResultFlags :
              /\ phaseNextCmd(session, flag).err # ""
              /\ phaseNextCmd(session, flag).s = session

\* C6: in REFACTOR with reflection questions loaded and one of them
\* unanswered, `phase next` and `complete` both return an error and leave
\* the session unchanged; with no question loaded, or all of them
\* answered, neither reflection gate reports an error, and `phase next`
\* and `complete` with the result "pass" then leave REFACTOR.
C6_ReflectionGate ==
    /\ ( /\ session.Phase = PhaseRefactor
         /\ Len(session.Reflections) > 0
         /\ HasPending(session) )
          => /\ \A flag \in TestResultFlags :
                   /\ phaseNextCmd(session, flag).err # ""
                   /\ phaseNextCmd(session, flag).s = session
             /\ \A flag \in TestResultFlags : \A run \in TestRuns :
                   /\ completeCmd(session, flag, run).err # ""
                   /\ completeCmd(session, flag, run).s = session
    /\ (Len(session.Reflections) = 0 \/ ~HasPending(session))
          => /\ reflectionGate(session) = ""
             /\ completeGate(session) = ""
             /\ session.Phase = PhaseRefactor
                   => /\ phaseNextCmd(session, "pass").err = ""
                      /\ phaseNextCmd(session, "pass").s.Phase # PhaseRefactor
                      /\ completeCmd(session, "pass", CHOOSE run \in TestRuns : TRUE).err = ""

\* C6 witness: REFACTOR with the questions loaded, some answered and some
\* not, where both commands refuse.
C6_Witness ==
    /\ session.Phase = PhaseRefactor
    /\ HasPending(session)
    /\ Len(PendingReflections(session)) < Len(session.Reflections)
    /\ phaseNextCmd(session, "pass").err = "cannot advance: reflection question(s) unanswered"
    /\ completeCmd(session, "pass", CHOOSE run \in TestRuns : TRUE).err
          = "cannot complete: reflection question(s) unanswered"

\* C7: a successful `phase next` from REFACTOR goes to RED when an ACTIVE
\* spec other than the current one remains, and to DONE when none remains.
C7_RefactorLoopsOrDone ==
    session.Phase = PhaseRefactor =>
        \A flag \in TestResultFlags :
            LET r == phaseNextCmd(session, flag)
            IN  r.err = "" =>
                    r.s.Phase = IF Len(RemainingSpecs(session)) > 0
                                THEN PhaseRed ELSE PhaseDone

\* C8: a successful `phase next` from REFACTOR with a current spec marks
\* exactly that spec COMPLETED, clears CurrentSpecID and leaves the status
\* of every other spec as it was.
C8_AutoCompletesCurrentSpec ==
    (session.Phase = PhaseRefactor /\ session.CurrentSpecID # {}) =>
        \A flag \in TestResultFlags :
            LET r == phaseNextCmd(session, flag)
            IN  r.err = "" =>
                    /\ r.s.CurrentSpecID = {}
                    /\ Len(r.s.Specs) = Len(session.Specs)
                    /\ \A i \in 1..Len(session.Specs) :
                          r.s.Specs[i].Status =
                             IF session.Specs[i].ID \in session.CurrentSpecID
                             THEN SpecStatusCompleted
                             ELSE session.Specs[i].Status

\* C9: Iteration increases by exactly 1 on each successful `phase next`
\* that leaves REFACTOR and is changed by no other step.
C9_IterationCountsLoops ==
    [][ IF /\ session.Phase = PhaseRefactor
           /\ \E flag \in TestResultFlags :
                 /\ phaseNextCmd(session, flag).err = ""
                 /\ session' = phaseNextCmd(session, flag).s
        THEN session'.Iteration = session.Iteration + 1
        ELSE session'.Iteration = session.Iteration ]_vars

\* C10: when the phase has just become DONE through `phase next`, no spec
\* of the session is ACTIVE.
C10_DoneMeansAllComplete ==
    ( /\ session.Phase = PhaseDone
      /\ Len(session.History) > 0
      /\ LastEvent.Action = "phase_next"
      /\ LastEvent.To = PhaseDone )
        => ~HasActive(session)

\* C11: in phase DONE GetBlockers returns exactly the one blocker "Cannot
\* advance past done", and `phase next` returns an error and leaves the
\* persisted session unchanged, whatever the flag, the stored result, the
\* specs and the reflections are.
C11_DoneIsTerminal ==
    session.Phase = PhaseDone =>
        /\ GetBlockers(session) = <<"Cannot advance past done">>
        /\ \A flag \in TestResultFlags :
              /\ phaseNextCmd(session, flag).err # ""
              /\ phaseNextCmd(session, flag).s = session

\* C11 witness: DONE with an ACTIVE spec and the stored result "pass", the
\* result the phase expects, where `phase next` is refused by the
\* transition table.
C11_Witness ==
    /\ session.Phase = PhaseDone
    /\ HasActive(session)
    /\ session.LastTestResult = "pass"
    /\ phaseNextCmd(session, "").err = "TDD cycle is complete"

\* C12: after every successful `phase next` and every successful `complete`
\* the stored LastTestResult is empty: whatever result the command used, the
\* saved session holds none, so the next advancement finds no stored result.
C12_ResultConsumedOnce ==
    /\ \A flag \in TestResultFlags :
          LET r == phaseNextCmd(session, flag)
          IN  r.err = "" => r.s.LastTestResult = ""
    /\ \A flag \in TestResultFlags : \A run \in CompleteRuns(session, flag) :
          LET r == completeCmd(session, flag, run)
          IN  r.err = "" => r.s.LastTestResult = ""
    /\ (Len(session.History) > 0 /\ LastEvent.Action \in {"phase_next", "complete"})
          => session.LastTestResult = ""

\* C12 witness: a `complete` has just used the result "pass" in a session
\* with a test command, and the saved session holds no result.
C12_Witness ==
    /\ Len(session.History) > 0
    /\ LastEvent.Action = "complete"
    /\ LastEvent.Result = "pass"
    /\ session.TestCmd # ""
    /\ session.Phase = PhaseDone
    /\ session.LastTestResult = ""

C14_ReentryKeepsAnswers ==
    Len(session.Reflections) > 0 =>
        /\ phaseSetCmd(session, PhaseRefactor).s.Reflections = session.Reflections
        /\ \A flag \in TestResultFlags :
              LET r == phaseNextCmd(session, flag)
              IN  (r.err = "" /\ r.s.Phase = PhaseRefactor) =>
                     \A i \in 1..Len(session.Reflections) :
                        session.Reflections[i].Answer # << >> =>
                           r.s.Reflections[i].Answer = session.Reflections[i].Answer

C16_AnswersHaveFiveWords ==
    /\ \A i \in 1..Len(session.Reflections) :
          session.Reflections[i].Answer # << >> =>
             FieldCount(session.Reflections[i].Answer) >= 5
    /\ \A arg \in QuestionArgs(session) : \A answerFlag \in AnswerFlags :
          (answerFlag = << >> \/ FieldCount(answerFlag) < 5) =>
             /\ reflectCmd(session, arg, answerFlag).err # ""
             /\ reflectCmd(session, arg, answerFlag).s = session

\* C16 witness: in REFACTOR, a five-word answer is stored for question 1
\* and a four-word answer to the pending question 2 is rejected for its
\* length.
C16_Witness ==
    /\ session.Phase = PhaseRefactor
    /\ Len(session.Reflections) = 7
    /\ FieldCount(session.Reflections[1].Answer) = 5
    /\ session.Reflections[2].Answer = << >>
    /\ reflectCmd(session, Num(2),
                  <<"a", " ", " ", "b", " ", "c", " ", " ", "d", " ">>).err
          = "answer must be at least 5 words"

C18_SpecIdsUniqueIncreasing ==
    /\ \A i, j \in 1..Len(session.Specs) :
          i < j => session.Specs[i].ID < session.Specs[j].ID
    /\ Len(session.Specs) > 0 => session.Specs[1].ID = 1
    /\ \A i \in 1..Len(session.Specs) : session.NextID > session.Specs[i].ID
    /\ \A description \in Descriptions :
          LET r  == AddSpec(session, description)
              id == AddSpecID(session)
          IN  /\ Len(r.Specs) = Len(session.Specs) + 1
              /\ SubSeq(r.Specs, 1, Len(session.Specs)) = session.Specs
              /\ r.Specs[Len(r.Specs)] = [ID          |-> id,
                                          Description |-> description,
                                          Status      |-> SpecStatusActive]
              /\ \A i \in 1..Len(session.Specs) : session.Specs[i].ID # id
              /\ r.NextID > id

\* C18 witness: two specs were added, the first one was completed in
\* between or afterwards, and the counter stands at 3.
C18_Witness ==
    /\ Len(session.Specs) = 2
    /\ session.Specs[1] = [ID |-> 1, Description |-> "first", Status |-> SpecStatusCompleted]
    /\ session.Specs[2] = [ID |-> 2, Description |-> "first", Status |-> SpecStatusActive]
    /\ session.NextID = 3

\* C19: no step of any command removes a spec, changes the id or the
\* description of an existing spec, or turns a COMPLETED spec back to
\* ACTIVE; the only change of an existing spec is ACTIVE to COMPLETED.
C19_SpecsNeverRevert ==
    [][ /\ Len(session'.Specs) >= Len(session.Specs)
        /\ \A i \in 1..Len(session.Specs) :
              /\ session'.Specs[i].ID = session.Specs[i].ID
              /\ session'.Specs[i].Description = session.Specs[i].Description
              /\ session'.Specs[i].Status \in {session.Specs[i].Status, SpecStatusCompleted}
      ]_vars

\* C19 witness: `spec done` has completed spec 1 of two, spec 2 is still
\* ACTIVE, and completing spec 1 again is refused.
C19_Witness ==
    /\ Len(session.Specs) = 2
    /\ session.Specs[1].Status = SpecStatusCompleted
    /\ session.Specs[2].Status = SpecStatusActive
    /\ Len(session.History) > 0
    /\ LastEvent.Action = "spec_done"
    /\ specDoneCmd(session, FALSE, <<Num(1)>>).err = "spec is already completed"
    /\ specDoneCmd(session, TRUE, << >>).err = ""

\* C20: CompleteSpec(id) returns an error and leaves the session, its specs
\* and CurrentSpecID unchanged when no spec has the id or the spec is
\* already COMPLETED; otherwise it sets the status of that spec to
\* COMPLETED and changes nothing else, CurrentSpecID included, and a second
\* call with the same id fails and leaves the status COMPLETED.
C20_CompleteSpecContract ==
    \A id \in TypesIds :
        LET r == CompleteSpec(session, id)
            i == FindSpec(session, id)
        IN  IF i = 0 \/ session.Specs[i].Status = SpecStatusCompleted
            THEN r.err # "" /\ r.s = session
            ELSE /\ r.err = ""
                 /\ Len(r.s.Specs) = Len(session.Specs)
                 /\ r.s.Specs[i] = [session.Specs[i] EXCEPT !.Status = SpecStatusCompleted]
                 /\ \A j \in 1..Len(session.Specs) :
                       j # i => r.s.Specs[j] = session.Specs[j]
                 /\ r.s.CurrentSpecID = session.CurrentSpecID
                 /\ r.s = [session EXCEPT !.Specs = r.s.Specs]
                 /\ CompleteSpec(r.s, id).err # ""
                 /\ CompleteSpec(r.s, id).s = r.s

\* C20 witness: spec 1 was completed by CompleteSpec while it was the
\* current spec and is still named by CurrentSpecID; completing it again
\* and completing an unknown id both fail, completing spec 2 succeeds.
C20_Witness ==
    /\ Len(session.Specs) = 2
    /\ session.Specs[1].Status = SpecStatusCompleted
    /\ session.Specs[2].Status = SpecStatusActive
    /\ session.CurrentSpecID = {1}
    /\ CompleteSpec(session, 1).err = "spec is already completed"
    /\ CompleteSpec(session, 3).err = "spec not found"
    /\ CompleteSpec(session, 2).err = ""

C23_RetrofitSkipsGreen ==
    GetMode(session) = ModeRetrofit =>
        /\ session.Phase # PhaseGreen
        /\ session.Phase = PhaseRed =>
              \A flag \in TestResultFlags :
                  LET r == phaseNextCmd(session, flag)
                  IN  r.err = "" => r.s.Phase = PhaseRefactor
        /\ LastIsPhaseNextFrom(PhaseRed) => LastEvent.To = PhaseRefactor

\* C23 witness: a RETROFIT session has just left RED by `phase next` with
\* the result "pass" and is in REFACTOR.
C23_Witness ==
    /\ GetMode(session) = ModeRetrofit
    /\ LastIsPhaseNextFrom(PhaseRed)
    /\ LastEvent.Result = "pass"
    /\ session.Phase = PhaseRefactor

\* C24: ExpectedTestResult is "fail" for (RED, GREENFIELD) and "pass" for
\* (RED, RETROFIT), for GREEN in either mode and for REFACTOR in either
\* mode; the session's other fields do not enter the result.
C24_ExpectedTestResultTable ==
    /\ ExpectedTestResult(PhaseRed, ModeGreenfield) = "fail"
    /\ ExpectedTestResult(PhaseRed, ModeRetrofit) = "pass"
    /\ \A mode \in {ModeGreenfield, ModeRetrofit} :
          /\ ExpectedTestResult(PhaseGreen, mode) = "pass"
          /\ ExpectedTestResult(PhaseRefactor, mode) = "pass"
    /\ session.Phase \in {PhaseRed, PhaseGreen, PhaseRefactor} =>
          ExpectedTestResult(session.Phase, GetMode(session)) =
              IF session.Phase = PhaseRed /\ GetMode(session) = ModeGreenfield
              THEN "fail" ELSE "pass"

\* C24 witness: a RETROFIT session in RED with a spec picked holds the
\* result "pass", which is the expected one: nothing blocks it.
C24_Witness ==
    /\ session.Phase = PhaseRed
    /\ session.Mode = ModeRetrofit
    /\ session.LastTestResult = "pass"
    /\ ExpectedTestResult(session.Phase, GetMode(session)) = "pass"
    /\ session.CurrentSpecID # {}
    /\ blockersCmd(session).CanAdvance

\* C25: for DONE, in either mode, the expected test result is empty:
\* ExpectedTestResult reports neither "pass" nor "fail".
C25_DoneHasNoExpectedResult ==
    session.Phase = PhaseDone =>
        ExpectedTestResult(session.Phase, GetMode(session)) \notin {"pass", "fail"}


\* C26: NextInLoop returns what NextWithMode returns, errors included, for
\* every phase, mode and hasRemainingSpecs except REFACTOR with remaining
\* specs, where it returns RED in both modes; REFACTOR without remaining
\* specs yields DONE.
C26_NextInLoopDiffersOnlyAtRefactor ==
    /\ \A p \in {PhaseRed, PhaseGreen, PhaseRefactor, PhaseDone},
          mode \in {"", ModeGreenfield, ModeRetrofit},
          h \in BOOLEAN :
          IF p = PhaseRefactor /\ h
          THEN NextInLoop(p, mode, h) = [phase |-> PhaseRed, err |-> ""]
          ELSE NextInLoop(p, mode, h) = NextWithMode(p, mode)
    /\ \A mode \in {"", ModeGreenfield, ModeRetrofit} :
          NextInLoop(PhaseRefactor, mode, FALSE) = [phase |-> PhaseDone, err |-> ""]
    /\ LET h == Len(RemainingSpecs(session)) > 0
           r == NextInLoop(session.Phase, GetMode(session), h)
       IN  IF session.Phase = PhaseRefactor /\ h
           THEN r.err = "" /\ r.phase = PhaseRed
           ELSE r = NextWithMode(session.Phase, GetMode(session))

\* C26 witness: a session in REFACTOR with a spec remaining, for which
\* NextInLoop answers RED where NextWithMode answers DONE.
C26_Witness ==
    /\ session.Phase = PhaseRefactor
    /\ Len(RemainingSpecs(session)) > 0
    /\ NextInLoop(session.Phase, GetMode(session), TRUE).phase = PhaseRed
    /\ NextWithMode(session.Phase, GetMode(session)).phase = PhaseDone
    /\ ENABLED CallNextInLoop


\* C27: CanTransition is true exactly for RED->GREEN, GREEN->REFACTOR,
\* REFACTOR->DONE and REFACTOR->RED, and false for every other pair of
\* phases (RED->REFACTOR, GREEN->RED, DONE->RED and the self-loops among
\* them), whatever the session's mode.
C27_CanTransitionEdges ==
    LET Phases == {PhaseRed, PhaseGreen, PhaseRefactor, PhaseDone}
        Edges  == { <<PhaseRed, PhaseGreen>>, <<PhaseGreen, PhaseRefactor>>,
                    <<PhaseRefactor, PhaseDone>>, <<PhaseRefactor, PhaseRed>> }
    IN  /\ \A from \in Phases, to \in Phases :
              CanTransition(from, to) <=> <<from, to>> \in Edges
        /\ ~CanTransition(PhaseRed, PhaseRefactor)
        /\ ~CanTransition(PhaseGreen, PhaseRed)
        /\ ~CanTransition(PhaseDone, PhaseRed)
        /\ \A p \in Phases : ~CanTransition(p, p)
        /\ \A to \in Phases :
              CanTransition(session.Phase, to) <=> <<session.Phase, to>> \in Edges

\* C27 witness: a RETROFIT session in REFACTOR may go to DONE and back to
\* RED, while RED -> REFACTOR, the edge its own mode takes, is refused.
C27_Witness ==
    /\ session.Mode = ModeRetrofit
    /\ session.Phase = PhaseRefactor
    /\ CanTransition(session.Phase, PhaseRed)
    /\ CanTransition(session.Phase, PhaseDone)
    /\ ~CanTransition(PhaseRed, session.Phase)
    /\ ENABLED CallCanTransition


\* The blockers GetBlockers can return, by kind.
SpecBlockers == {"No active specs", "No spec selected"}

MismatchBlocker(actual, expected) ==
    "Test result '" \o actual \o "' does not match expected '" \o expected \o "'"

TestResultBlockers ==
    {"No test result recorded"}
        \cup { MismatchBlocker(actual, expected) :
                   actual \in {"pass", "fail", "error"},
                   expected \in {"pass", "fail"} }

ReflectionBlockers ==
    { ToString(n) \o " reflection questions unanswered" : n \in 0..NumQuestions }

\* The positions of the blockers of one kind in a list of blockers.
Positions(blockers, kind) == { i \in DOMAIN blockers : blockers[i] \in kind }

\* C28: in RED GetBlockers lists "No active specs" exactly when the session
\* has no ACTIVE spec and "No spec selected" exactly when CurrentSpecID is
\* unset and an ACTIVE spec exists, never both, and before the test-result
\* blocker; a fresh session yields exactly "No active specs" followed by
\* "No test result recorded".
C28_RedSpecBlockers ==
    /\ GetBlockers(NewSession) = <<"No active specs", "No test result recorded">>
    /\ session.Phase = PhaseRed =>
          LET b == GetBlockers(session)
          IN  /\ Positions(b, {"No active specs"}) # {} <=> ~HasActive(session)
              /\ Positions(b, {"No spec selected"}) # {}
                     <=> (session.CurrentSpecID = {} /\ HasActive(session))
              /\ Cardinality(Positions(b, SpecBlockers)) <= 1
              /\ \A i \in Positions(b, SpecBlockers),
                    j \in Positions(b, TestResultBlockers) : i < j
              /\ Positions(b, SpecBlockers) \cup Positions(b, TestResultBlockers)
                     = DOMAIN b

\* C28 witness: a session in RED with an ACTIVE spec, none selected and no
\* test result: "No spec selected" comes first, the test-result blocker second.
C28_Witness ==
    /\ session.Phase = PhaseRed
    /\ HasActive(session)
    /\ session.CurrentSpecID = {}
    /\ blockersCmd(session).Blockers = <<"No spec selected", "No test result recorded">>


\* C29: in RED, GREEN and REFACTOR GetBlockers holds exactly one
\* test-result blocker when LastTestResult is empty ("No test result
\* recorded") or differs from the expected result (the mismatch message,
\* naming both), and none when they are equal; "error" is always a mismatch.
C29_TestResultBlocker ==
    session.Phase \in {PhaseRed, PhaseGreen, PhaseRefactor} =>
        LET b        == GetBlockers(session)
            expected == ExpectedTestResult(session.Phase, GetMode(session))
            found    == Positions(b, TestResultBlockers)
        IN  /\ Cardinality(found) <= 1
            /\ session.LastTestResult = "" =>
                  \E i \in found : b[i] = "No test result recorded"
            /\ (session.LastTestResult # "" /\ session.LastTestResult # expected) =>
                  \E i \in found : b[i] = MismatchBlocker(session.LastTestResult, expected)
            /\ session.LastTestResult = expected => found = {}
            /\ session.LastTestResult = "error" =>
                  \E i \in found : b[i] = MismatchBlocker("error", expected)

\* C29 witness: a session in GREEN whose last run was an infrastructure
\* error is blocked by the mismatch of 'error' with 'pass', and by nothing else.
C29_Witness ==
    /\ session.Phase = PhaseGreen
    /\ session.LastTestResult = "error"
    /\ blockersCmd(session).Blockers = <<MismatchBlocker("error", "pass")>>
    /\ ~blockersCmd(session).CanAdvance

\* C30: in REFACTOR GetBlockers holds "N reflection questions unanswered"
\* exactly when N > 0, N being the number of loaded questions with an empty
\* answer, and holds it after the test-result blocker; with no questions
\* loaded or all of them answered there is no reflection blocker.
C30_ReflectionBlocker ==
    session.Phase = PhaseRefactor =>
        LET b     == GetBlockers(session)
            N     == Cardinality({ i \in DOMAIN session.Reflections :
                                       session.Reflections[i].Answer = << >> })
            found == Positions(b, ReflectionBlockers)
        IN  /\ N > 0 =>
                  /\ Cardinality(found) = 1
                  /\ \A i \in found :
                        b[i] = ToString(N) \o " reflection questions unanswered"
            /\ N = 0 => found = {}
            /\ \A i \in found, j \in Positions(b, TestResultBlockers) : j < i
            /\ found \cup Positions(b, TestResultBlockers) = DOMAIN b

\* C30 witness: a session in REFACTOR with the first question answered and
\* a failing result is blocked by the mismatch first and by the six
\* unanswered questions second.
C30_Witness ==
    /\ session.Phase = PhaseRefactor
    /\ session.LastTestResult = "fail"
    /\ Len(session.Reflections) = NumQuestions
    /\ session.Reflections[1].Answer # << >>
    /\ blockersCmd(session).Blockers =
           <<MismatchBlocker("fail", "pass"), "6 reflection questions unanswered">>


\* C31: a successful `complete`, whatever phase it starts in, leaves the
\* phase DONE, every spec COMPLETED and LastTestResult empty, and appends
\* one `complete` event that records how many specs it completed.
C31_CompleteFinishesEverything ==
    \A flag \in TestResultFlags :
        \A run \in CompleteRuns(session, flag) :
            LET r == completeCmd(session, flag, run)
            IN  r.err = "" =>
                    /\ r.s.Phase = PhaseDone
                    /\ \A i \in DOMAIN r.s.Specs :
                          r.s.Specs[i].Status = SpecStatusCompleted
                    /\ Len(r.s.Specs) = Len(session.Specs)
                    /\ r.s.LastTestResult = ""
                    /\ r.s.History =
                          <<[Event("complete") EXCEPT
                                !.Result    = "pass",
                                !.SpecCount = Len(ActiveSpecs(session))]>>

\* C31 witness: `complete` has just succeeded on a session that had active
\* specs and holds them all completed in DONE.
C31_Witness ==
    /\ LastEvent.Action = "complete"
    /\ LastEvent.SpecCount = MaxSpecs
    /\ session.Phase = PhaseDone
    /\ session.LastTestResult = ""
    /\ ~HasActive(session)

\* C32: after a successful `complete` CurrentSpecID is unset, whatever the
\* phase and the selected spec were.
C32_CompleteClearsCurrentSpec ==
    \A flag \in TestResultFlags :
        \A run \in CompleteRuns(session, flag) :
            LET r == completeCmd(session, flag, run)
            IN  r.err = "" => r.s.CurrentSpecID = {}


\* C33: the event history only grows. A command that changes the saved
\* session appends exactly one event behind the existing entries, which stay
\* as they were; a command that appends nothing (a failed one) changes
\* nothing; the first entry is always the `init` event.
C33_HistoryAppendOnly ==
    [][ /\ Len(session'.History) \in {Len(session.History), Len(session.History) + 1}
        /\ SubSeq(session'.History, 1, Len(session.History)) = session.History
        /\ Len(session'.History) = Len(session.History) => session' = session
        /\ session.History[1].Action = "init"
        /\ session'.History[Len(session'.History)].Action \in
               {"init", "spec_add", "spec_done", "spec_picked", "test_run",
                "phase_next", "phase_set", "reflection_answer", "complete"} ]_vars

\* C33 witness: three commands succeeded one after the other and the
\* history holds their three events in order.
C33_Witness ==
    /\ Len(session.History) = 3
    /\ session.History[1].Action = "init"
    /\ session.History[2].Action = "phase_set"
    /\ session.History[3].Action = "reflection_answer"


\* C34: the guidance agrees with the core for every session: its blockers
\* are GetBlockers(session), its expected test result is
\* ExpectedTestResult(phase, mode) and absent at DONE, its next phase is the
\* transition-table successor and absent at DONE, its specs are the ACTIVE
\* specs, and its reflections are present only in REFACTOR.
C34_GuidanceAgreesWithCore ==
    LET g    == Generate(session)
        mode == GetMode(session)
        next == NextWithMode(session.Phase, mode)
    IN  /\ g.Blockers = GetBlockers(session)
        /\ g.ExpectedTestResult =
               IF session.Phase = PhaseDone THEN ""
               ELSE ExpectedTestResult(session.Phase, mode)
        /\ g.NextPhase = IF next.err = "" THEN next.phase ELSE ""
        /\ session.Phase = PhaseDone => g.NextPhase = ""
        /\ g.Specs = ActiveSpecs(session)
        /\ g.Reflections # << >> => session.Phase = PhaseRefactor


\* C35: `complete` succeeds only when its effective test result (the flag,
\* otherwise the stored LastTestResult, otherwise a run of the configured
\* test command) is "pass", in GREENFIELD RED too; with any other result,
\* or none, it refuses and the saved session is unchanged.
C35_CompleteNeedsPass ==
    \A flag \in TestResultFlags :
        \A run \in CompleteRuns(session, flag) :
            LET effective == IF flag # "" THEN flag
                             ELSE IF session.LastTestResult # ""
                             THEN session.LastTestResult
                             ELSE IF session.TestCmd # ""
                             THEN (IF ~run.execErr THEN "pass"
                                   ELSE IF run.infra THEN "error" ELSE "fail")
                             ELSE ""
                r == completeCmd(session, flag, run)
            IN  /\ r.err = "" => effective = "pass"
                /\ effective # "pass" => r.err # "" /\ r.s = session
                /\ r.err # "" => r.s = session

\* C35 witness: a GREENFIELD session in RED with an active spec holds the
\* result "pass": `phase next` refuses it, `complete` accepts it, and
\* `complete --test-result fail` is refused.
C35_Witness ==
    /\ session.Phase = PhaseRed
    /\ session.Mode = ModeGreenfield
    /\ HasActive(session)
    /\ session.LastTestResult = "pass"
    /\ phaseNextCmd(session, "").err # ""
    /\ completeCmd(session, "", [execErr |-> FALSE, infra |-> FALSE]).err = ""
    /\ completeCmd(session, "fail", [execErr |-> FALSE, infra |-> FALSE]).err # ""
    /\ ENABLED Complete


\* C36: `spec done id1 ... idn` is all-or-nothing on the saved session: when
\* a listed id is not a number, unknown or already COMPLETED the command
\* fails and the session is unchanged, the ids listed before it included;
\* `spec done --all` without an ACTIVE spec fails and changes nothing.
C36_SpecDoneAllOrNothing ==
    /\ \A args \in ArgLists(IdArgs) :
          LET r   == specDoneCmd(session, FALSE, args)
              bad == \E i \in DOMAIN args :
                         \/ ~args[i].isNum
                         \/ ~\E j \in DOMAIN session.Specs :
                                /\ session.Specs[j].ID = args[i].n
                                /\ session.Specs[j].Status = SpecStatusActive
          IN  /\ bad => r.err # ""
              /\ r.err # "" => r.s = session
              /\ r.err = "" =>
                    /\ r.s.History = <<[Event("spec_done") EXCEPT !.SpecCount = Len(args)]>>
                    /\ \A i \in DOMAIN args :
                          \E j \in DOMAIN r.s.Specs :
                              /\ r.s.Specs[j].ID = args[i].n
                              /\ r.s.Specs[j].Status = SpecStatusCompleted
    /\ ~HasActive(session) =>
          LET r == specDoneCmd(session, TRUE, << >>)
          IN  r.err # "" /\ r.s = session

\* C36 witness: spec 1 is ACTIVE and spec 2 is COMPLETED; `spec done 1 2`
\* fails on the second id and spec 1 stays ACTIVE in the saved session.
C36_Witness ==
    /\ Len(session.Specs) = 2
    /\ session.Specs[1].Status = SpecStatusActive
    /\ session.Specs[2].Status = SpecStatusCompleted
    /\ LastEvent.Action = "spec_done"
    /\ CompleteSpecs(session, <<Num(1), Num(2)>>).err # ""
    /\ CompleteSpecs(session, <<Num(1), Num(2)>>).s.Specs[1].Status = SpecStatusCompleted
    /\ specDoneCmd(session, FALSE, <<Num(1), Num(2)>>).s = session


\* C37: `phase set <p>` succeeds exactly for red, green, refactor and done,
\* whatever blocks the session; it changes the phase, the history (one
\* phase_set event) and, for refactor with no reflections loaded, the
\* reflections, and nothing else; any other p is refused with the session
\* unchanged.
C37_PhaseSetFrame ==
    \A arg \in PhaseArgs :
        LET r == phaseSetCmd(session, arg)
        IN  /\ r.err = "" <=> arg \in {PhaseRed, PhaseGreen, PhaseRefactor, PhaseDone}
            /\ r.err # "" => r.s = session
            /\ r.err = "" =>
                  r.s = [session EXCEPT
                            !.Phase       = arg,
                            !.History     = <<[Event("phase_set") EXCEPT
                                                  !.From = session.Phase,
                                                  !.To   = arg]>>,
                            !.Reflections = IF arg = PhaseRefactor
                                               /\ Len(session.Reflections) = 0
                                            THEN DefaultQuestions ELSE @]

\* C37 witness: `phase set refactor` has just moved a session with blockers
\* out of another phase and kept the answer it already held.
C37_Witness ==
    /\ LastEvent.Action = "phase_set"
    /\ LastEvent.From = PhaseGreen
    /\ LastEvent.To = PhaseRefactor
    /\ session.Phase = PhaseRefactor
    /\ \E i \in DOMAIN session.Reflections : session.Reflections[i].Answer # << >>
    /\ GetBlockers(session) # << >>


\* C38: no phase other than DONE is a dead end, in either mode and in GREEN
\* of a RETROFIT session too: when nothing but the test result can block
\* the session, `phase next` with the expected result moves it to another
\* phase and `complete` with the result pass leaves it in DONE.
C38_NoDeadEnd ==
    LET expected == ExpectedTestResult(session.Phase, GetMode(session))
        run      == [execErr |-> FALSE, infra |-> FALSE]
    IN  (/\ session.Phase \in {PhaseRed, PhaseGreen, PhaseRefactor}
         /\ GetBlockers([session EXCEPT !.LastTestResult = expected]) = << >>)
        => /\ phaseNextCmd(session, expected).err = ""
           /\ phaseNextCmd(session, expected).s.Phase # session.Phase
           /\ completeCmd(session, "pass", run).err = ""
           /\ completeCmd(session, "pass", run).s.Phase = PhaseDone


\* C39: an actor who follows the workflow on a session with n >= 1 specs
\* ends in DONE with all n specs COMPLETED and Iteration = n: whenever the
\* workflow has brought the session to DONE, where no step of the workflow
\* changes it any more, every spec is COMPLETED and Iteration is n.
C39_WorkflowCompletesEverySpec ==
    session.Phase = PhaseDone =>
        /\ Len(session.Specs) >= 1
        /\ \A i \in DOMAIN session.Specs :
              session.Specs[i].Status = SpecStatusCompleted
        /\ session.Iteration = Len(session.Specs)


\* C40: with two invocations interleaved on the same session file, once
\* both are finished the file holds exactly the document the last writer
\* wrote from the state it loaded, never a mix of the two.
C40_LastWriterWins ==
    (/\ \A p \in Invocations : session.Inv[p].pc = "done"
     /\ session.Writer \in Invocations)
    => /\ Unmarshal(session.File).err = ""
       /\ Unmarshal(session.File).s = session.Inv[session.Writer].s
       /\ session.File = Marshal(session.Inv[session.Writer].s)

====
